---- MODULE Spec2Model ----
(***************************************************************************)
(* Model of the /optimize request handler of src/main.py: one request is   *)
(* drawn, the distance provider answers or fails, the routing solver       *)
(* returns an assignment that satisfies the hard constraints the handler   *)
(* installed (or nothing), and the extractor walks every vehicle, calls    *)
(* the geometry provider and puts the vehicle's route into the response.   *)
(*                                                                         *)
(* Nodes are positions of the job list, 0 is the depot.  A coordinate pair *)
(* (lat, lon) is represented by the position of the job that carries it    *)
(* (field loc).  Minutes, metres and demands are integers as in the code.  *)
(***************************************************************************)
EXTENDS Integers, Sequences, FiniteSets

\* ---------------------------------------------------------------- bounds
MaxJobs == 2
MaxVehicles == 2
MaxDemand == 1
MaxCapacity == 2
MaxWait == 1

\* ------------------------------------------------------ program constants
SERVICE_TIME == 10
DefaultTimeStart == 480
DefaultTimeEnd == 1080
DepotDeparture == 480
UnlimitedCapacity == 9999999
DistanceCapacity == 99999999
TimeCapacity == 99999
DistSentinel == 1000000
DurSentinel == 999

VARIABLES request, pc, distance_matrix, duration_matrix, solution,
          routes_json, status, geomCalls, geomFailed

vars == <<request, pc, distance_matrix, duration_matrix, solution,
          routes_json, status, geomCalls, geomFailed>>

\* Python's None, as a record so that it compares with a solution
None == [none |-> TRUE]

Max(a, b) == IF a >= b THEN a ELSE b

RECURSIVE SumSeq(_)
SumSeq(s) == IF s = <<>> THEN 0 ELSE Head(s) + SumSeq(Tail(s))

\* ------------------------------------------------------------ the request
Job(id, loc, demand, time_start, time_end) ==
    [id |-> id, loc |-> loc, demand |-> demand,
     time_start |-> time_start, time_end |-> time_end]

\* the ids of the n entries: the depot's id need not be 0, the ids need not
\* be the positions, and two jobs may share one
JobIds(n) == [i \in 0..n - 1 |-> IF i = 0 THEN 7 ELSE 3 + (i % 2)]

\* a demand heavier than the capacity the solver is given when use_capacity
\* is off
HeavyDemand == UnlimitedCapacity + 1

\* demand vectors over the n entries of the job list: every job asks for
\* nothing or for MaxDemand, or the jobs ask for 1, 0, 1, ...; the depot
\* entry carries 0 or 1; and one vector whose first job alone is heavier than
\* the solver's sentinel
DemandVectors(n) ==
    { [i \in 0..n - 1 |-> IF i = 0 THEN d0 ELSE d] :
          d0 \in 0..1, d \in {0, MaxDemand} } \cup
    { [i \in 0..n - 1 |-> IF i = 0 THEN d0 ELSE i % 2] : d0 \in 0..1 } \cup
    (IF n >= 2 THEN { [i \in 0..n - 1 |-> IF i = 1 THEN HeavyDemand ELSE 0] } ELSE {})

\* time windows (time_start, time_end) of the jobs: all default; the first
\* job with reversed bounds <<620, 600>>, or with the default reversed; every
\* job with <<620, 600>>
DefaultWindow == <<DefaultTimeStart, DefaultTimeEnd>>

WindowVectors(n) ==
    { [i \in 0..n - 1 |-> DefaultWindow],
      [i \in 0..n - 1 |-> IF i = 1 THEN <<620, 600>> ELSE DefaultWindow],
      [i \in 0..n - 1 |-> IF i = 1 THEN <<DefaultTimeEnd, DefaultTimeStart>>
                           ELSE DefaultWindow],
      [i \in 0..n - 1 |-> IF i = 0 THEN DefaultWindow ELSE <<620, 600>>] }

JobLists ==
    UNION { { [k \in 1..n |->
                 Job(JobIds(n)[k - 1], k - 1, dem[k - 1], win[k - 1][1], win[k - 1][2])] :
              dem \in DemandVectors(n), win \in WindowVectors(n) } :
            n \in 1..MaxJobs + 1 }

\* the nominal capacity matters only when it is enforced; without
\* enforcement the request carries the smallest one
OptimizationRequest ==
    { r \in [vehicle_count : 1..MaxVehicles, vehicle_capacity : {1, MaxCapacity},
             jobs : JobLists, use_capacity : BOOLEAN, open_path : BOOLEAN] :
        r.use_capacity \/ r.vehicle_capacity = 1 }

\* locations = [{...} for j in request.jobs], indexed from 0
NumLocations == Len(request.jobs)
Nodes == 0..NumLocations - 1
locations == [i \in Nodes |-> request.jobs[i + 1]]
Vehicles == 0..request.vehicle_count - 1

Init ==
    /\ request \in OptimizationRequest
    /\ pc = "matrices"
    /\ distance_matrix = <<>>
    /\ duration_matrix = <<>>
    /\ solution = None
    /\ routes_json = <<>>
    /\ status = "pending"
    /\ geomCalls = 0
    /\ geomFailed = {}


\* ------------------------------------------------------ distance provider
\* get_osrm_matrices: two answers the provider can give for the request's
\* coordinates, an ordinary asymmetric one and one where every pair of
\* distinct locations is unreachable (the sentinels of lines 42-43)
MatrixAnswers ==
    { [dist |-> [i \in Nodes |-> [j \in Nodes |->
                   IF i = j THEN 0 ELSE 1000 * (i + 1) + 100 * j]],
       dur  |-> [i \in Nodes |-> [j \in Nodes |->
                   IF i = j THEN 0 ELSE 20 + 3 * i + j]]],
      [dist |-> [i \in Nodes |-> [j \in Nodes |->
                   IF i = j THEN 0 ELSE DistSentinel]],
       dur  |-> [i \in Nodes |-> [j \in Nodes |->
                   IF i = j THEN 0 ELSE DurSentinel]]] }

GetMatricesOk ==
    /\ pc = "matrices"
    /\ \E m \in MatrixAnswers :
          /\ distance_matrix' = m.dist
          /\ duration_matrix' = m.dur
    /\ pc' = "solve"
    /\ UNCHANGED <<request, solution, routes_json, status, geomCalls, geomFailed>>

\* except: raise HTTPException(status_code=500, ...)
GetMatricesFail ==
    /\ pc = "matrices"
    /\ pc' = "done"
    /\ status' = "error500"
    /\ UNCHANGED <<request, distance_matrix, duration_matrix, solution,
                   routes_json, geomCalls, geomFailed>>

\* ------------------------------------------------------------- callbacks
distance_callback(from_node, to_node) ==
    IF request.open_path /\ to_node = 0 THEN 0
    ELSE distance_matrix[from_node][to_node]

demand_callback(from_node) == locations[from_node].demand

\* a variant without the test for an arc from a node to itself
time_callback_no_self_test(from_node, to_node) ==
    IF request.open_path /\ to_node = 0 THEN 0
    ELSE duration_matrix[from_node][to_node] + SERVICE_TIME

time_callback(from_node, to_node) ==
    IF from_node = to_node THEN 0
    ELSE IF request.open_path /\ to_node = 0 THEN 0
    ELSE duration_matrix[from_node][to_node] + SERVICE_TIME

\* a variant that never enforces the request's capacity
actual_capacity_unenforced == UnlimitedCapacity

actual_capacity ==
    IF request.use_capacity THEN request.vehicle_capacity ELSE UnlimitedCapacity

\* lines 164-170: the window after the swap, and whether a bound is installed
WindowStart(i) ==
    IF locations[i].time_start > locations[i].time_end
    THEN locations[i].time_end ELSE locations[i].time_start

WindowEnd(i) ==
    IF locations[i].time_start > locations[i].time_end
    THEN locations[i].time_start ELSE locations[i].time_end

HasWindow(i) ==
    i \in Nodes \ {0} /\ (WindowStart(i) # DefaultTimeStart \/ WindowEnd(i) # DefaultTimeEnd)

\* a variant that installs no lower bound
CumulMinUnset(i) == 0

CumulMin(i) == IF HasWindow(i) THEN WindowStart(i) ELSE 0

\* ------------------------------------------------------ the routing model
\* the node sequence of a vehicle: Start (depot), its jobs, End (depot)
Visit(route) == <<0>> \o route \o <<0>>

\* Capacity dimension: cumul 0 at Start, no slack, transit demand_callback(from)
RECURSIVE LoadCumuls(_, _)
LoadCumuls(visit, k) ==
    IF k = 1 THEN <<0>>
    ELSE LET prev == LoadCumuls(visit, k - 1)
         IN  Append(prev, prev[k - 1] + demand_callback(visit[k - 1]))

\* Distance dimension: cumul 0 at Start, no slack, transit distance_callback
RECURSIVE DistCumuls(_, _)
DistCumuls(visit, k) ==
    IF k = 1 THEN <<0>>
    ELSE LET prev == DistCumuls(visit, k - 1)
         IN  Append(prev, prev[k - 1] + distance_callback(visit[k - 1], visit[k]))

TimeTransits(visit) ==
    [k \in 1..Len(visit) - 1 |-> time_callback(visit[k], visit[k + 1])]

\* Time dimension: cumul 480 at Start; the cumul of the next index is the
\* earliest value the transit and the node's SetMin allow, plus the slack
\* the solver leaves (wait: none, or MaxWait minutes at every index)
RECURSIVE TimeCumuls(_, _, _)
TimeCumuls(visit, wait, k) ==
    IF k = 1 THEN <<DepotDeparture>>
    ELSE LET prev == TimeCumuls(visit, wait, k - 1)
         IN  Append(prev, Max(prev[k - 1] + time_callback(visit[k - 1], visit[k]),
                              CumulMin(visit[k])) + wait)

\* the orders of the non-depot nodes (RoutingModel without disjunctions:
\* every node is visited)
Perms(S) == { p \in [1..Cardinality(S) -> S] : \A a, b \in DOMAIN p : p[a] = p[b] => a = b }

RouteOf(perm, veh, v) ==
    LET Mine(j) == veh[j] = v IN SelectSeq(perm, Mine)

\* the ways to put every non-depot node on exactly one vehicle, in order
RouteSets ==
    { [v \in Vehicles |-> RouteOf(perm, veh, v)] :
        perm \in Perms(Nodes \ {0}), veh \in [Nodes \ {0} -> Vehicles] }

\* an assignment with the cumuls of its three dimensions at Start, at every
\* job and at End, and the Time transits of its arcs
Assignment(routes, wait) ==
    [routes  |-> routes,
     load    |-> [v \in Vehicles |-> LoadCumuls(Visit(routes[v]), Len(routes[v]) + 2)],
     dist    |-> [v \in Vehicles |-> DistCumuls(Visit(routes[v]), Len(routes[v]) + 2)],
     transit |-> [v \in Vehicles |-> TimeTransits(Visit(routes[v]))],
     time    |-> [v \in Vehicles |-> TimeCumuls(Visit(routes[v]), wait, Len(routes[v]) + 2)]]

\* hard constraints of the three dimensions
LoadWithin(cumuls) ==
    \A k \in DOMAIN cumuls : cumuls[k] >= 0 /\ cumuls[k] <= actual_capacity

CapacityOk(a) == \A v \in Vehicles : LoadWithin(a.load[v])

DistanceOk(a) ==
    \A v \in Vehicles : \A k \in DOMAIN a.dist[v] :
        a.dist[v][k] >= 0 /\ a.dist[v][k] <= DistanceCapacity

TimeOk(a) ==
    \A v \in Vehicles : \A k \in DOMAIN a.time[v] :
        /\ a.time[v][k] >= 0 /\ a.time[v][k] <= TimeCapacity
        /\ k > 1 => a.time[v][k] >= CumulMin(Visit(a.routes[v])[k])

Feasible(a) == CapacityOk(a) /\ DistanceOk(a) /\ TimeOk(a)

\* solution = routing.SolveWithParameters(...): some assignment satisfying
\* the hard constraints
SolveFound ==
    /\ pc = "solve"
    /\ \E routes \in RouteSets :
       \E wait \in {0, MaxWait} :
          LET a == Assignment(routes, wait)
          IN  /\ Feasible(a)
              /\ solution' = a
    /\ pc' = "extract"
    /\ UNCHANGED <<request, distance_matrix, duration_matrix, routes_json,
                   status, geomCalls, geomFailed>>

\* a variant that answers success with what it has when the solver fails
SolveNoneFallback ==
    /\ pc = "solve"
    /\ solution' = None
    /\ pc' = "done"
    /\ status' = "success"
    /\ UNCHANGED <<request, distance_matrix, duration_matrix, routes_json,
                   geomCalls, geomFailed>>

\* SolveWithParameters returns nothing (infeasible, or the 30 s budget ran
\* out); raise HTTPException(status_code=400, ...)
SolveNone ==
    /\ pc = "solve"
    /\ solution' = None
    /\ pc' = "done"
    /\ status' = "error400"
    /\ UNCHANGED <<request, distance_matrix, duration_matrix, routes_json,
                   geomCalls, geomFailed>>


\* ------------------------------------------------------ solution extractor
\* a variant that does not wrap the hour
FormatArrivalNoWrap(arrival_min) ==
    LET hh == arrival_min \div 60
        mm == arrival_min % 60
    IN  <<hh \div 10, hh % 10, ":", mm \div 10, mm % 10>>

\* f"{(arrival_min // 60) % 24:02d}:{arrival_min % 60:02d}" as its five
\* characters: two digits, the colon, two digits
FormatArrival(arrival_min) ==
    LET hh == (arrival_min \div 60) % 24
        mm == arrival_min % 60
    IN  <<hh \div 10, hh % 10, ":", mm \div 10, mm % 10>>

\* the stops appended by the while loop of lines 190-196 for the first k
\* indices of the vehicle (Start and its jobs; End is not visited)
RECURSIVE WalkStops(_, _)
WalkStops(v, k) ==
    IF k = 0 THEN <<>>
    ELSE LET node == Visit(solution.routes[v])[k]
             arrival_min == solution.time[v][k]
             loc == locations[node]
         IN  Append(WalkStops(v, k - 1),
                    [loc |-> loc.loc, id |-> loc.id, demand |-> loc.demand,
                     arrival_time |-> FormatArrival(arrival_min)])

RECURSIVE WalkLoad(_, _)
WalkLoad(v, k) ==
    IF k = 0 THEN 0
    ELSE WalkLoad(v, k - 1) + locations[Visit(solution.routes[v])[k]].demand

\* a variant that reports the depot entry's demand on the return stop
ReturnStopDepotDemand(v) ==
    LET depot == request.jobs[1]
        arrival_min == solution.time[v][Len(solution.routes[v]) + 2]
    IN  [loc |-> depot.loc, id |-> depot.id, demand |-> depot.demand,
         arrival_time |-> FormatArrival(arrival_min)]

\* lines 203-206
ReturnStop(v) ==
    LET depot == request.jobs[1]
        arrival_min == solution.time[v][Len(solution.routes[v]) + 2]
    IN  [loc |-> depot.loc, id |-> depot.id, demand |-> 0,
         arrival_time |-> FormatArrival(arrival_min)]

\* a variant with the threshold off by one
ServesNoJobOffByOne(stops) == Len(stops) <= 2

\* if len(path_stops) <= 1
ServesNoJob(stops) == Len(stops) <= 1

EmptyRoute(v) ==
    [vehicle_id |-> v + 1, path |-> <<>>, geometry |-> <<>>, total_km |-> 0, total_load |-> 0]

\* ------------------------------------------------------ geometry provider
FailureAnswers == {"exception", "non200", "noroutes"}

GeometryAnswers == {"ok"} \cup FailureAnswers

\* the answers to the calls of one request: the calls for the vehicles in
\* failed fail, all in the way mode
Answers(failed, mode) == [v \in Vehicles |-> IF v \in failed THEN mode ELSE "ok"]

\* the road distance of a path in metres, as the provider reports it
RECURSIVE RoadDistance(_)
RoadDistance(path) ==
    IF Len(path) < 2 THEN 0
    ELSE distance_matrix[path[1].loc][path[2].loc] + RoadDistance(Tail(path))

\* get_route_geometry: (decoded polyline, distance) or ([], 0)
get_route_geometry(path_locations, answer) ==
    IF Len(path_locations) < 2 THEN <<<<>>, 0>>
    ELSE IF answer = "ok"
         THEN << [k \in 1..Len(path_locations) |-> path_locations[k].loc],
                 RoadDistance(path_locations) >>
         ELSE <<<<>>, 0>>

\* round(true_distance / 1000, 2) in hundredths of a kilometre; the metres
\* of the model are multiples of 10, where no rounding takes place
RoundKm(true_distance) == (true_distance + 5) \div 10

formatted_path(stops) ==
    [i \in 1..Len(stops) |->
        [order |-> i, loc |-> stops[i].loc, original_id |-> stops[i].id,
         demand |-> stops[i].demand, arrival_time |-> stops[i].arrival_time]]

\* lines 186-217: the route entry of vehicle v, given the answer of the
\* geometry provider for it
RouteEntry(v, answer) ==
    LET stops == WalkStops(v, Len(solution.routes[v]) + 1)
        vehicle_load == WalkLoad(v, Len(solution.routes[v]) + 1)
    IN  IF ServesNoJob(stops) THEN EmptyRoute(v)
        ELSE LET path_stops == IF ~request.open_path
                               THEN Append(stops, ReturnStop(v))
                               ELSE stops
                 res == get_route_geometry(path_stops, answer)
             IN  [vehicle_id |-> v + 1,
                  path |-> formatted_path(path_stops),
                  geometry |-> res[1],
                  total_km |-> RoundKm(res[2]),
                  total_load |-> vehicle_load]

\* the vehicles for which get_route_geometry is called
Enriched == { v \in Vehicles : ~ServesNoJob(WalkStops(v, Len(solution.routes[v]) + 1)) }

\* a variant in which a failed geometry call aborts the request
ExtractFatal ==
    /\ pc = "extract"
    /\ LET entry == [v \in Vehicles |-> [a \in GeometryAnswers |-> RouteEntry(v, a)]]
       IN  \E failed \in SUBSET Enriched :
           \E mode \in (IF failed = {} THEN {"ok"} ELSE FailureAnswers) :
              /\ geomFailed' = failed
              /\ IF failed # {}
                 THEN routes_json' = <<>> /\ status' = "error500"
                 ELSE /\ routes_json' = [i \in 1..request.vehicle_count |->
                                            entry[i - 1][Answers(failed, mode)[i - 1]]]
                      /\ status' = "success"
    /\ geomCalls' = Cardinality(Enriched)
    /\ pc' = "done"
    /\ UNCHANGED <<request, distance_matrix, duration_matrix, solution>>

\* lines 181-221, the branch taken with a solution: every vehicle is walked
\* in turn, the geometry provider answers for each vehicle that serves a
\* job, and the routes are returned with status success
Extract ==
    /\ pc = "extract"
    /\ LET entry == [v \in Vehicles |-> [a \in GeometryAnswers |-> RouteEntry(v, a)]]
       IN  \E failed \in SUBSET Enriched :
           \E mode \in (IF failed = {} THEN {"ok"} ELSE FailureAnswers) :
              /\ routes_json' = [i \in 1..request.vehicle_count |->
                                    entry[i - 1][Answers(failed, mode)[i - 1]]]
              /\ geomFailed' = failed
    /\ geomCalls' = Cardinality(Enriched)
    /\ status' = "success"
    /\ pc' = "done"
    /\ UNCHANGED <<request, distance_matrix, duration_matrix, solution>>

Next ==
    \/ GetMatricesOk
    \/ GetMatricesFail
    \/ SolveFound
    \/ SolveNone
    \/ Extract

Spec == Init /\ [][Next]_vars


\* ================================================================ claims
Route(v) == routes_json[v + 1]
Reported == 0..Len(routes_json) - 1
Closed == ~request.open_path
Jobs == Nodes \ {0}

\* the positions of a reported path that hold jobs: all but the first stop
\* and, on a closed route, the last
JobPositions(v) ==
    IF Route(v).path = <<>> THEN {}
    ELSE 2..(Len(Route(v).path) - (IF Closed THEN 1 ELSE 0))

JobStops == { <<v, k>> \in Reported \X (1..NumLocations + 1) : k \in JobPositions(v) }

PrefixDemand(path, k) == SumSeq([j \in 1..k |-> path[j].demand])

\* C1 (coverage): in a success response the job stops of all vehicles' paths
\* are exactly the entries 1..N-1 of the job list, each on one path at one
\* position, with that job's id (so the ids of the job stops, counted with
\* multiplicity, are the ids of the jobs).
CoverageHolds ==
    status = "success" =>
        /\ \A i \in Jobs :
              Cardinality({ s \in JobStops : Route(s[1]).path[s[2]].loc = i }) = 1
        /\ \A s \in JobStops :
              /\ Route(s[1]).path[s[2]].loc \in Jobs
              /\ Route(s[1]).path[s[2]].original_id
                     = locations[Route(s[1]).path[s[2]].loc].id
        /\ Cardinality(JobStops) = NumLocations - 1

CoverageWitness ==
    /\ status = "success"
    /\ NumLocations = 3
    /\ request.vehicle_count = 2
    /\ \A v \in Vehicles : Len(Route(v).path) >= 2

\* C2 as claimed: with use_capacity the demand of every prefix of every
\* reported path is at most vehicle_capacity, and without it no way of
\* routing the jobs is rejected by the Capacity dimension when the solver runs.
CapacityAsClaimed ==
    /\ request.use_capacity =>
          \A v \in Reported : \A k \in 1..Len(Route(v).path) :
              PrefixDemand(Route(v).path, k) <= request.vehicle_capacity
    /\ (pc = "solve" /\ ~request.use_capacity) =>
          \A routes \in RouteSets : \A v \in Vehicles :
              LoadWithin(LoadCumuls(Visit(routes[v]), Len(routes[v]) + 2))

\* the load a route accumulates, the depot entry's demand included
RouteDemand(route) == SumSeq([k \in 1..Len(route) + 1 |-> locations[Visit(route)[k]].demand])

\* C2 (capacity), amended: with use_capacity the demand of every prefix of
\* every reported path is at most vehicle_capacity; without it a way of
\* routing the jobs (of non-negative demand) is rejected by the Capacity
\* dimension, when the solver runs, only if some route's load exceeds the
\* sentinel 9999999, whatever vehicle_capacity is.
CapacityHolds ==
    /\ request.use_capacity =>
          \A v \in Reported : \A k \in 1..Len(Route(v).path) :
              PrefixDemand(Route(v).path, k) <= request.vehicle_capacity
    /\ (pc = "solve" /\ ~request.use_capacity) =>
          \A routes \in RouteSets :
              (\A v \in Vehicles : RouteDemand(routes[v]) <= UnlimitedCapacity)
                  => \A v \in Vehicles :
                        LoadWithin(LoadCumuls(Visit(routes[v]), Len(routes[v]) + 2))

CapacityWitness ==
    /\ status = "success"
    /\ ~request.use_capacity
    /\ \E v \in Reported : Route(v).total_load > request.vehicle_capacity

\* the clock reading, in minutes, of a formatted arrival time
ClockMinutes(t) == (t[1] * 10 + t[2]) * 60 + t[4] * 10 + t[5]

OpenPathAsClaimed ==
    status = "success" =>
        \A v \in Reported :
            LET path == Route(v).path
                route == solution.routes[v]
            IN  IF request.open_path
                THEN path = <<>> \/
                     (/\ Len(path) = Len(route) + 1
                      /\ path[Len(path)].loc = route[Len(route)])
                ELSE /\ Len(path) = Len(route) + 2
                     /\ path[Len(path)].loc = request.jobs[1].loc
                     /\ path[Len(path)].original_id = request.jobs[1].id
                     /\ path[Len(path)].demand = 0
                     /\ path[Len(path)].arrival_time
                            = FormatArrival(solution.time[v][Len(route) + 2])

\* C4 (open path), amended: the same for every vehicle that serves at least
\* one job; the path of a vehicle that serves none is empty, open or not.
OpenPathHolds ==
    status = "success" =>
        \A v \in Reported :
            LET path == Route(v).path
                route == solution.routes[v]
            IN  IF route = <<>> THEN path = <<>>
                ELSE IF request.open_path
                THEN /\ Len(path) = Len(route) + 1
                     /\ path[Len(path)].loc = route[Len(route)]
                     /\ path[Len(path)].loc # 0
                ELSE /\ Len(path) = Len(route) + 2
                     /\ path[Len(path)].loc = request.jobs[1].loc
                     /\ path[Len(path)].original_id = request.jobs[1].id
                     /\ path[Len(path)].demand = 0
                     /\ path[Len(path)].arrival_time
                            = FormatArrival(solution.time[v][Len(route) + 2])

\* a closed route is reported for a depot entry that carries a demand
OpenPathWitness ==
    /\ status = "success"
    /\ Closed
    /\ request.jobs[1].demand > 0
    /\ \E v \in Reported : Len(Route(v).path) >= 3

\* C5 (total failure): when the solver returns nothing the request ends with
\* the 400 error, an empty route list and no geometry call; a success
\* response is produced only from a solution.
TotalFailureHolds ==
    /\ (pc = "done" /\ solution = None /\ distance_matrix # <<>>) =>
          status = "error400" /\ routes_json = <<>> /\ geomCalls = 0
    /\ status = "error400" => solution = None /\ routes_json = <<>> /\ geomCalls = 0
    /\ status = "success" => solution # None

\* the solver failed on a request that no assignment can satisfy
TotalFailureWitness ==
    /\ status = "error400"
    /\ request.use_capacity
    /\ \A routes \in RouteSets : \E v \in Vehicles :
          RouteDemand(routes[v]) > request.vehicle_capacity

\* C6 (geometry failure): a vehicle whose geometry call failed is reported
\* with geometry [] and total_km 0; its path and total_load, like those of
\* every other vehicle, are the ones the solution gives; and the request
\* still ends in success.
GeometryFailureHolds ==
    /\ \A v \in Reported :
          LET r == Route(v)
              route == solution.routes[v]
          IN  /\ v \in geomFailed => r.geometry = <<>> /\ r.total_km = 0
              /\ r.vehicle_id = v + 1
              /\ route # <<>> =>
                    /\ Len(r.path) = Len(route) + (IF Closed THEN 2 ELSE 1)
                    /\ \A k \in 1..Len(route) + 1 :
                          /\ r.path[k].order = k
                          /\ r.path[k].loc = Visit(route)[k]
                          /\ r.path[k].original_id = locations[Visit(route)[k]].id
                          /\ r.path[k].demand = locations[Visit(route)[k]].demand
                          /\ r.path[k].arrival_time = FormatArrival(solution.time[v][k])
                    /\ r.total_load = RouteDemand(route)
                    /\ v \notin geomFailed => r.geometry # <<>>
    /\ (pc = "done" /\ geomFailed # {}) => status = "success"

\* of two vehicles that serve jobs, the geometry call failed for the first only
GeometryFailureWitness ==
    /\ status = "success"
    /\ geomFailed = {0}
    /\ Len(routes_json) = 2
    /\ Route(0).path # <<>> /\ Route(0).geometry = <<>>
    /\ Route(1).geometry # <<>> /\ Route(1).total_km > 0


\* C7 (capacity accumulator) as claimed: in a solution the load is 0 when a
\* vehicle leaves the depot and is still 0 on arrival at its first stop (the
\* depot contributes 0 whatever demand its entry carries), every job
\* contributes its demand, and the total_load reported for a vehicle is the
\* sum of the demands of its jobs.
DepotLoadAsClaimed ==
    /\ solution # None =>
          \A v \in Vehicles :
              /\ solution.load[v][1] = 0
              /\ solution.load[v][2] = 0
              /\ \A k \in 2..Len(solution.routes[v]) + 1 :
                    solution.load[v][k + 1] - solution.load[v][k]
                        = locations[solution.routes[v][k - 1]].demand
    /\ solution # None =>
          \A v \in Reported :
              Route(v).total_load
                  = SumSeq([k \in 1..Len(solution.routes[v])
                               |-> locations[solution.routes[v][k]].demand])

\* C8 (distance dimension) as claimed: along every arc of a solution the
\* Distance cumul grows by distance_matrix[from][to], the arc back to the
\* depot of an open route included.
DistanceDimensionAsClaimed ==
    solution # None =>
        \A v \in Vehicles :
            \A k \in 1..Len(solution.routes[v]) + 1 :
                solution.dist[v][k + 1] - solution.dist[v][k]
                    = distance_matrix[Visit(solution.routes[v])[k]]
                                     [Visit(solution.routes[v])[k + 1]]

\* C9 (time transit) as claimed: along every arc of a solution the Time
\* transit is duration_matrix[from][to] + 10, or 0 when open_path is set and
\* the arc ends at the depot, with no other exception.
TimeTransitAsClaimed ==
    solution # None =>
        \A v \in Vehicles :
            \A k \in 1..Len(solution.routes[v]) + 1 :
                LET from == Visit(solution.routes[v])[k]
                    to == Visit(solution.routes[v])[k + 1]
                IN  solution.transit[v][k]
                        = IF request.open_path /\ to = 0 THEN 0
                          ELSE duration_matrix[from][to] + 10

\* C9 (time transit), amended: along every arc of a solution the Time transit
\* is duration_matrix[from][to] + 10, or 0 when open_path is set and the arc
\* ends at the depot, or 0 when the arc joins a node to itself, which on a
\* route is the depot-start to depot-end arc of a vehicle that serves no jobs.
TimeTransitHolds ==
    solution # None =>
        \A v \in Vehicles :
            \A k \in 1..Len(solution.routes[v]) + 1 :
                LET from == Visit(solution.routes[v])[k]
                    to == Visit(solution.routes[v])[k + 1]
                IN  /\ solution.transit[v][k]
                          = IF from = to \/ (request.open_path /\ to = 0) THEN 0
                            ELSE duration_matrix[from][to] + 10
                    /\ from = to => solution.routes[v] = <<>>
                    /\ solution.time[v][k + 1] >= solution.time[v][k] + solution.transit[v][k]

\* a closed solution with a vehicle that serves jobs and one that serves none
TimeTransitWitness ==
    /\ solution # None
    /\ Closed
    /\ request.vehicle_count = 2
    /\ solution.routes[0] = <<>>
    /\ Len(solution.routes[1]) = 2
    /\ solution.transit[1][2] > 10

\* C10 (arrival formatting): every stop of a reported path, job stop or depot
\* return, carries the two-digit hour and minute of its cumulative time
\* modulo 1440.
ArrivalFormatHolds ==
    \A v \in Reported :
        \A k \in 1..Len(Route(v).path) :
            LET m == solution.time[v][k]
                t == Route(v).path[k].arrival_time
            IN  /\ m >= 0
                /\ Len(t) = 5
                /\ t[3] = ":"
                /\ \A d \in {1, 2, 4, 5} : t[d] \in 0..9
                /\ t[1] * 10 + t[2] = (m % 1440) \div 60
                /\ t[4] * 10 + t[5] = (m % 1440) % 60

\* a job stop and the depot return of one route are both reported for
\* cumulative times past 1440
ArrivalFormatWitness ==
    /\ status = "success"
    /\ Closed
    /\ \E v \in Reported :
          /\ Len(Route(v).path) >= 3
          /\ solution.time[v][2] >= 1440
          /\ solution.time[v][Len(Route(v).path)] >= 1440
          /\ ClockMinutes(Route(v).path[2].arrival_time) < 480

====
